---- MODULE Spec2Model ----
(***************************************************************************)
(* Model of src/server.js: an Express service over one MongoDB collection  *)
(* (Transaction).  GET /initialize replaces the collection with the        *)
(* normalized upstream dataset; GET /transactions, /statistics,            *)
(* /price-range and /category-stats read it.                               *)
(*                                                                         *)
(* Every `await` of a handler is a suspension point, so a handler is one   *)
(* action per store operation it awaits: the action is the moment the      *)
(* store executes the operation, together with the synchronous code that   *)
(* runs up to the next operation.  Handlers of different requests          *)
(* interleave at these points.                                             *)
(*                                                                         *)
(* Conventions.                                                            *)
(*  - A string is a sequence of one-character strings, <<"1","2">> for     *)
(*    "12".  Undefined stands for the JavaScript value undefined.          *)
(*  - A JavaScript number is [nan |-> BOOLEAN, val |-> Int].               *)
(*  - An instant is a number of days on a calendar whose months all have   *)
(*    DaysPerMonth days: ((year * 12) + monthIndex) * DaysPerMonth + day-1.*)
(*    The server's time zone is UTC, so local and parsed instants agree.   *)
(*  - A price is a whole number of 1/PriceScale units, so that prices      *)
(*    strictly between two whole numbers exist.                            *)
(***************************************************************************)
EXTENDS Integers, Sequences, FiniteSets, TLC

\* Number of GET /initialize requests that may be in flight at once.
NumIngest == 2
\* Days per month of the model's calendar.
DaysPerMonth == 2
\* A price p is stored as p * PriceScale.
PriceScale == 2

-----------------------------------------------------------------------------
(* JavaScript values and conversions *)

Undefined == <<"undefined">>

NaN == [nan |-> TRUE, val |-> 0]
Num(n) == [nan |-> FALSE, val |-> n]
isNaN(x) == x.nan

DigitValue ==
  "0" :> 0 @@ "1" :> 1 @@ "2" :> 2 @@ "3" :> 3 @@ "4" :> 4 @@
  "5" :> 5 @@ "6" :> 6 @@ "7" :> 7 @@ "8" :> 8 @@ "9" :> 9

IsDigit(c) == c \in DOMAIN DigitValue

RECURSIVE TrimStart(_)
TrimStart(s) ==
  IF s # <<>> /\ Head(s) = " " THEN TrimStart(Tail(s)) ELSE s

RECURSIVE DigitPrefix(_)
DigitPrefix(s) ==
  IF s # <<>> /\ IsDigit(Head(s))
    THEN <<Head(s)>> \o DigitPrefix(Tail(s))
    ELSE <<>>

RECURSIVE Decimal(_)
Decimal(d) ==
  IF d = <<>> THEN 0
  ELSE Decimal(SubSeq(d, 1, Len(d) - 1)) * 10 + DigitValue[d[Len(d)]]

\* parseInt(string, 10): leading white space is skipped, then an optional
\* sign, then the longest run of digits; whatever follows is ignored.
\* No digit at all gives NaN (also for undefined, read as "undefined").
parseInt(s) ==
  LET t      == TrimStart(s)
      signed == t # <<>> /\ Head(t) \in {"-", "+"}
      neg    == t # <<>> /\ Head(t) = "-"
      digits == DigitPrefix(IF signed THEN Tail(t) ELSE t)
  IN  IF digits = <<>> THEN NaN
      ELSE Num(IF neg THEN 0 - Decimal(digits) ELSE Decimal(digits))

\* parseFloat(string) on strings without ".", "e" or "Infinity" (the search
\* texts of the model have none): the same prefix rule as parseInt.
parseFloat(s) == parseInt(s)

LowerCase ==
  "A" :> "a" @@ "B" :> "b" @@ "C" :> "c" @@ "X" :> "x"

Lower(c) == IF c \in DOMAIN LowerCase THEN LowerCase[c] ELSE c

LowerStr(s) == [i \in 1..Len(s) |-> Lower(s[i])]

\* { field: { $regex: search, $options: 'i' } } for a search text without
\* regular-expression metacharacters: case-insensitive substring.
RegexMatch(text, search) ==
  \E i \in 0..(Len(text) - Len(search)) :
    SubSeq(LowerStr(text), i + 1, i + Len(search)) = LowerStr(search)

-----------------------------------------------------------------------------
(* Dates *)

Null == [null |-> TRUE, time |-> 0]
DateAt(t) == [null |-> FALSE, time |-> t]

Instant(year, monthIndex, day) ==
  ((year * 12) + monthIndex) * DaysPerMonth + (day - 1)

\* new Date(year, monthIndex, 1): a year in 0..99 means 1900 + year, and a
\* monthIndex of 12 rolls over to January of the next year.
NewDate(year, monthIndex) ==
  Instant(IF year \in 0..99 THEN 1900 + year ELSE year, monthIndex, 1)

\* new Date(value) for the JSON values a date field can hold:
\*   undefined (field absent) -> Invalid Date;  null -> the epoch;
\*   a date text "YYYY-MM-DD" -> that day, Invalid Date when the month or
\*   the day is out of range;  any other text -> Invalid Date.
\* The result is getTime() of it, NaN for Invalid Date.
DateGetTime(value) ==
  CASE value.json = "null" -> Num(Instant(1970, 0, 1))
    [] value.json = "date" ->
         IF value.m \in 1..12 /\ value.d \in 1..DaysPerMonth
           THEN Num(Instant(value.y, value.m - 1, value.d))
           ELSE NaN
    [] OTHER -> NaN

parseDate(dateString) ==
  LET time == DateGetTime(dateString)
  IN  IF isNaN(time) THEN Null ELSE DateAt(time.val)

-----------------------------------------------------------------------------
(* The upstream dataset: what axios.get may return *)

JsonUndefined == [json |-> "undefined"]
JsonNull == [json |-> "null"]
DateText(y, m, d) == [json |-> "date", y |-> y, m |-> m, d |-> d]
OtherText == [json |-> "text"]

Price(whole, fraction) == whole * PriceScale + fraction

Ids(n) == [json |-> "object", transaction_id |-> n, product_id |-> n, user_id |-> n]

\* Payload A: five elements, two of them with a date that does not parse.
ItemA1 == Ids(1) @@ [amount |-> 10, date |-> DateText(2024, 3, 1), title |-> <<"A", "b">>,
                     description |-> <<"x">>, price |-> Price(100, 0), category |-> <<"c">>]
ItemA2 == Ids(2) @@ [amount |-> 5, date |-> DateText(2024, 3, DaysPerMonth), title |-> <<"b">>,
                     price |-> Price(100, 1)]
ItemA3 == Ids(3) @@ [amount |-> 3, date |-> OtherText, title |-> <<"a">>, price |-> Price(50, 0)]
ItemA4 == Ids(4) @@ [amount |-> 4, date |-> DateText(2024, 13, 1), title |-> <<"a">>]
ItemA5 == Ids(5) @@ [amount |-> 8, date |-> DateText(2024, 12, 1), title |-> <<"X">>,
                     description |-> <<"a">>, price |-> Price(901, 0), category |-> <<"c">>]

\* Payload B: five elements, one without a date, one with a null date.
ItemB1 == Ids(6) @@ [amount |-> 7, date |-> DateText(2024, 4, 1), title |-> <<"a", "5">>,
                     price |-> Price(5, 0), category |-> <<"c">>]
ItemB2 == Ids(7) @@ [amount |-> 6, date |-> DateText(1924, 3, 1), title |-> <<"x">>, category |-> <<"b">>]
ItemB3 == Ids(8) @@ [date |-> JsonNull, price |-> Price(950, 0)]
ItemB4 == Ids(9) @@ [amount |-> 1, title |-> <<"a">>, price |-> Price(5, 0)]
ItemB5 == Ids(10) @@ [amount |-> 9, date |-> DateText(2025, 1, 1), title |-> <<"5">>,
                      price |-> Price(0, 0) - 1]

ArrayOf(items) == [json |-> "array", items |-> items]
NoData == [json |-> "none", items |-> <<>>]

\* response.data: an array of objects, an array holding a JSON null, or a
\* JSON value that is no array.
Upstream ==
  { ArrayOf(<<ItemA1, ItemA2, ItemA3, ItemA4, ItemA5>>),
    ArrayOf(<<ItemB1, ItemB2, ItemB3, ItemB4, ItemB5>>),
    ArrayOf(<<ItemA1, JsonNull>>),
    [json |-> "object", items |-> <<>>] }

IsArray(data) == data.json = "array"

-----------------------------------------------------------------------------
(* /initialize: the mapping of lines 52-62 *)

Get(item, field) == IF field \in DOMAIN item THEN item[field] ELSE JsonUndefined

\* item.title || '' and the like: an absent or empty text gives ''.
OrEmpty(item, field) == IF field \in DOMAIN item THEN item[field] ELSE <<>>
\* item.price || 0: an absent or zero price gives 0.
OrZero(item, field) == IF field \in DOMAIN item THEN item[field] ELSE 0

\* One element of data.map(...).  amount is copied as it is: an absent
\* amount is undefined and the stored document has no amount field.
MapItem(item) ==
  LET doc == [transactionId |-> item.transaction_id,
              productId     |-> item.product_id,
              userId        |-> item.user_id,
              date          |-> parseDate(Get(item, "date")),
              title         |-> OrEmpty(item, "title"),
              description   |-> OrEmpty(item, "description"),
              price         |-> OrZero(item, "price"),
              category      |-> OrEmpty(item, "category")]
  IN  IF "amount" \in DOMAIN item THEN doc @@ [amount |-> item.amount] ELSE doc

\* Reading a property of null throws a TypeError inside data.map.
MapThrows(data) == \E i \in 1..Len(data.items) : data.items[i].json = "null"

\* A faulty KeepTransaction: the filter of line 62 lets everything through.
KeepEveryTransaction(transaction) == TRUE

KeepTransaction(transaction) == ~transaction.date.null

\* const transactions = data.map(...).filter(transaction => transaction.date !== null)
Transactions(data) ==
  LET mapped == [i \in 1..Len(data.items) |-> MapItem(data.items[i])]
  IN  SelectSeq(mapped, KeepTransaction)

-----------------------------------------------------------------------------
(* State *)

VARIABLES
  store,    \* the Transaction collection, in insertion order
  ingest,   \* ingest[i]: the GET /initialize request i
  q,        \* the read request (/transactions or /price-range) in flight
  response  \* the HTTP response sent by the last step, if it sent one

vars == <<store, ingest, q, response>>

IngestIds == 1..NumIngest

\* A slot is idle until a request takes it and again once that is answered.
IdleIngest == [pc |-> "idle", data |-> NoData]

\* Requests are anonymous: a new one takes the first idle slot.
FirstIdle(i) ==
  /\ ingest[i].pc = "idle"
  /\ \A j \in IngestIds : j < i => ingest[j].pc # "idle"
IdleQuery == [route |-> "none", pc |-> "idle", args |-> <<>>, body |-> <<>>, dirty |-> FALSE]

\* ops: the store operations the request executed before it was answered;
\* dirty: the store was written between two reads of the request.
NoResponse ==
  [route |-> "none", status |-> 0, args |-> <<>>, body |-> <<>>, ops |-> 0, dirty |-> FALSE]
Respond(route, status, args, body, ops, dirty) ==
  [route |-> route, status |-> status, args |-> args, body |-> body, ops |-> ops, dirty |-> dirty]

Init ==
  /\ store = <<>>
  /\ ingest = [i \in IngestIds |-> IdleIngest]
  /\ q = IdleQuery
  /\ response = NoResponse

\* No response is waiting to be handed to its client.
Running == response = NoResponse

\* A write of the store while the read request is between two of its reads.
Written(query) ==
  IF query.pc = "idle" THEN query ELSE [query EXCEPT !.dirty = TRUE]

-----------------------------------------------------------------------------
(* GET /initialize *)

\* A faulty InitializeFetch: the array check of line 46 comes after
\* deleteMany instead of before it.
InitializeFetchDeleteFirst(i) ==
  /\ Running
  /\ FirstIdle(i)
  /\ \E data \in Upstream :
       IF ~IsArray(data)
         THEN /\ ingest' = [ingest EXCEPT ![i] = IdleIngest]
              /\ response' = Respond("/initialize", 400, data, <<>>, 1, FALSE)
              /\ store' = <<>>
              /\ q' = Written(q)
         ELSE /\ ingest' = [ingest EXCEPT ![i] = [pc |-> "deleteMany", data |-> data]]
              /\ response' = NoResponse
              /\ UNCHANGED <<store, q>>

\* Lines 43-50: the fetch resolves; a payload that is no array is answered
\* 400, an array goes on to Transaction.deleteMany({}).
InitializeFetch(i) ==
  /\ Running
  /\ FirstIdle(i)
  /\ \E data \in Upstream :
       IF ~IsArray(data)
         THEN /\ ingest' = [ingest EXCEPT ![i] = IdleIngest]
              /\ response' = Respond("/initialize", 400, data, <<>>, 0, FALSE)
         ELSE /\ ingest' = [ingest EXCEPT ![i] = [pc |-> "deleteMany", data |-> data]]
              /\ response' = NoResponse
  /\ UNCHANGED <<store, q>>

\* Line 43 rejects (the upstream source is unreachable): caught at line 67.
InitializeFetchError(i) ==
  /\ Running
  /\ FirstIdle(i)
  /\ ingest' = [ingest EXCEPT ![i] = IdleIngest]
  /\ response' = Respond("/initialize", 500, NoData, <<>>, 0, FALSE)
  /\ UNCHANGED <<store, q>>

\* Line 50 executes, then lines 52-64 run up to Transaction.insertMany: an
\* exception of the mapping is caught at line 67.
InitializeDelete(i) ==
  /\ Running
  /\ ingest[i].pc = "deleteMany"
  /\ store' = <<>>
  /\ IF MapThrows(ingest[i].data)
       THEN /\ ingest' = [ingest EXCEPT ![i] = IdleIngest]
            /\ response' = Respond("/initialize", 500, ingest[i].data, <<>>, 1, FALSE)
       ELSE /\ ingest' = [ingest EXCEPT ![i].pc = "insertMany"]
            /\ response' = NoResponse
  /\ q' = Written(q)

\* Line 50 rejects (a store error): nothing is deleted.
InitializeDeleteError(i) ==
  /\ Running
  /\ ingest[i].pc = "deleteMany"
  /\ ingest' = [ingest EXCEPT ![i] = IdleIngest]
  /\ response' = Respond("/initialize", 500, ingest[i].data, <<>>, 0, FALSE)
  /\ UNCHANGED <<store, q>>

\* Line 64 executes and line 66 answers 200.
InitializeInsert(i) ==
  /\ Running
  /\ ingest[i].pc = "insertMany"
  /\ store' = store \o Transactions(ingest[i].data)
  /\ ingest' = [ingest EXCEPT ![i] = IdleIngest]
  /\ response' = Respond("/initialize", 200, ingest[i].data, <<>>, 2, FALSE)
  /\ q' = Written(q)

\* Line 64 rejects (a store error): nothing is inserted.
InitializeInsertError(i) ==
  /\ Running
  /\ ingest[i].pc = "insertMany"
  /\ ingest' = [ingest EXCEPT ![i] = IdleIngest]
  /\ response' = Respond("/initialize", 500, ingest[i].data, <<>>, 1, FALSE)
  /\ UNCHANGED <<store, q>>

Initialize ==
  \E i \in IngestIds :
    \/ InitializeFetch(i)
    \/ InitializeFetchError(i)
    \/ InitializeDelete(i)
    \/ InitializeDeleteError(i)
    \/ InitializeInsert(i)
    \/ InitializeInsertError(i)

-----------------------------------------------------------------------------
(* Store queries *)

\* { date: { $gte: startDate, $lt: endDate } }
InDateRange(doc, startDate, endDate) ==
  ~doc.date.null /\ doc.date.time >= startDate /\ doc.date.time < endDate

\* The documents of `docs` at the positions of `keep`, in order.
RECURSIVE Pick(_, _, _)
Pick(docs, keep, i) ==
  IF i > Len(docs) THEN <<>>
  ELSE (IF i \in keep THEN <<docs[i]>> ELSE <<>>) \o Pick(docs, keep, i + 1)

\* Lines 84-93: the $or of the two regular expressions and, when the search
\* text parses as a finite number, the price equality.
QueryMatches(doc, search) ==
  \/ RegexMatch(doc.title, search)
  \/ RegexMatch(doc.description, search)
  \/ LET number == parseFloat(search)
     IN  ~isNaN(number) /\ doc.price = number.val * PriceScale

Find(docs, search) ==
  Pick(docs, {i \in 1..Len(docs) : QueryMatches(docs[i], search)}, 1)

\* A faulty SkipLimit: .limit(m) is left out.
SkipNoLimit(docs, n, m) == SubSeq(docs, n + 1, Len(docs))

\* .skip(n).limit(m) for n >= 0 and m >= 1.
SkipLimit(docs, n, m) ==
  SubSeq(docs, n + 1, IF n + m < Len(docs) THEN n + m ELSE Len(docs))

\* Math.ceil(a / b) for a >= 0 and b >= 1.
MathCeil(a, b) == (a + b - 1) \div b

-----------------------------------------------------------------------------
(* GET /transactions *)

DefaultPage == <<"1">>
DefaultPerPage == <<"1", "0">>
DefaultSearch == <<>>

PageParams == {Undefined, <<"2">>, <<"0">>, <<"x">>}
PerPageParams == {Undefined, <<"1">>, <<"x">>}
SearchParams == {Undefined, <<"a">>, <<"5">>}

Default(value, default) == IF value = Undefined THEN default ELSE value

\* Lines 76-98: the parameters are parsed and checked, then find() executes.
\* The store rejects a negative skip, which is caught at line 109.
TransactionsFind(page, perPage, search) ==
  LET pageNumber    == parseInt(Default(page, DefaultPage))
      perPageNumber == parseInt(Default(perPage, DefaultPerPage))
      text          == Default(search, DefaultSearch)
      args          == [page |-> page, perPage |-> perPage, search |-> search]
      skip          == (pageNumber.val - 1) * perPageNumber.val
  IN
  /\ Running
  /\ q.pc = "idle"
  /\ IF isNaN(pageNumber) \/ isNaN(perPageNumber)
       THEN /\ response' = Respond("/transactions", 400, args, <<>>, 0, FALSE)
            /\ q' = q
     ELSE IF skip < 0
       THEN /\ response' = Respond("/transactions", 500, args, <<>>, 1, FALSE)
            /\ q' = q
     ELSE /\ response' = NoResponse
          /\ q' = [route |-> "/transactions", pc |-> "countDocuments", args |-> args,
                   dirty |-> FALSE,
                   body |-> [transactions |-> SkipLimit(Find(store, text), skip, perPageNumber.val),
                             totalCount   |-> 0,
                             totalPages   |-> 0,
                             currentPage  |-> pageNumber.val,
                             perPage      |-> perPageNumber.val]]
  /\ UNCHANGED <<store, ingest>>

\* A faulty TransactionsCount: countDocuments() is given the title clause
\* only instead of the query find() was given.
TransactionsCountTitleOnly ==
  /\ Running
  /\ q.route = "/transactions" /\ q.pc = "countDocuments"
  /\ LET text       == Default(q.args.search, DefaultSearch)
         totalCount == Cardinality({i \in 1..Len(store) : RegexMatch(store[i].title, text)})
         body       == [q.body EXCEPT !.totalCount = totalCount,
                                      !.totalPages = MathCeil(totalCount, q.body.perPage)]
     IN  response' = Respond("/transactions", 200, q.args, body, 2, q.dirty)
  /\ q' = IdleQuery
  /\ UNCHANGED <<store, ingest>>

\* Lines 100-108: countDocuments() executes and the page is answered.
TransactionsCount ==
  /\ Running
  /\ q.route = "/transactions" /\ q.pc = "countDocuments"
  /\ LET totalCount == Len(Find(store, Default(q.args.search, DefaultSearch)))
         body       == [q.body EXCEPT !.totalCount = totalCount,
                                      !.totalPages = MathCeil(totalCount, q.body.perPage)]
     IN  response' = Respond("/transactions", 200, q.args, body, 2, q.dirty)
  /\ q' = IdleQuery
  /\ UNCHANGED <<store, ingest>>

\* Line 100 rejects (a store error): caught at line 109.
TransactionsError ==
  /\ Running
  /\ q.route = "/transactions" /\ q.pc = "countDocuments"
  /\ response' = Respond("/transactions", 500, q.args, <<>>, 2, q.dirty)
  /\ q' = IdleQuery
  /\ UNCHANGED <<store, ingest>>

GetTransactions ==
  \/ \E page \in PageParams, perPage \in PerPageParams, search \in SearchParams :
       TransactionsFind(page, perPage, search)
  \/ TransactionsCount
  \/ TransactionsError

-----------------------------------------------------------------------------
(* GET /statistics *)

MonthParams ==
  {Undefined, <<"3">>, <<"1", "2">>, <<"1", "3">>, <<"0">>, <<"a">>, <<"3", ".", "5">>}
YearParams == {Undefined, <<"2", "0", "2", "4">>, <<"2", "4">>, <<"x">>}

RECURSIVE SumAmount(_)
\* { $sum: "$amount" }: a document without an amount adds nothing.
SumAmount(docs) ==
  IF docs = <<>> THEN 0
  ELSE (IF "amount" \in DOMAIN Head(docs) THEN Head(docs).amount ELSE 0)
       + SumAmount(Tail(docs))

\* { $match: { sold: flag } }, { $count: "count" }
CountSold(docs, flag) ==
  Cardinality({i \in 1..Len(docs) : "sold" \in DOMAIN docs[i] /\ docs[i].sold = flag})

InvalidMonth(monthNumber) ==
  isNaN(monthNumber) \/ monthNumber.val < 1 \/ monthNumber.val > 12

\* { $match: { date: { $gte: startDate, $lt: endDate } } }
MatchDate(docs, startDate, endDate) ==
  Pick(docs, {i \in 1..Len(docs) : InDateRange(docs[i], startDate, endDate)}, 1)

\* Lines 118-174: the handler with its one aggregate().
Statistics(month, year) ==
  LET monthNumber == parseInt(month)
      yearNumber  == parseInt(year)
      args        == [month |-> month, year |-> year]
      startDate   == NewDate(yearNumber.val, monthNumber.val - 1)
      endDate     == NewDate(yearNumber.val, monthNumber.val)
      matched     == MatchDate(store, startDate, endDate)
      \* $group emits no document for an empty input: [0]?.total || 0
      total       == IF matched = <<>> THEN 0 ELSE SumAmount(matched)
      body        == [totalSaleAmount   |-> total,
                      totalSoldItems    |-> CountSold(matched, TRUE),
                      totalNotSoldItems |-> CountSold(matched, FALSE)]
  IN
  /\ Running
  /\ q.pc = "idle"
  /\ response' = IF InvalidMonth(monthNumber) \/ isNaN(yearNumber)
                   THEN Respond("/statistics", 400, args, <<>>, 0, FALSE)
                   ELSE Respond("/statistics", 200, args, body, 1, FALSE)
  /\ UNCHANGED <<store, ingest, q>>

\* aggregate() rejects (a store error): caught at line 175.
StatisticsError(month, year) ==
  /\ Running
  /\ q.pc = "idle"
  /\ ~InvalidMonth(parseInt(month)) /\ ~isNaN(parseInt(year))
  /\ response' = Respond("/statistics", 500, [month |-> month, year |-> year], <<>>, 1, FALSE)
  /\ UNCHANGED <<store, ingest, q>>

GetStatistics ==
  \E month \in MonthParams, year \in YearParams :
    \/ Statistics(month, year)
    \/ StatisticsError(month, year)

-----------------------------------------------------------------------------
(* GET /price-range *)

\* new Date().getFullYear()
ClockYears == {2024, 2025}

Band(min, max) == [min |-> min, max |-> max, unbounded |-> FALSE]
\* { min: 901, max: Infinity }
BandFrom(min) == [min |-> min, max |-> min, unbounded |-> TRUE]

priceRanges ==
  << Band(0, 100), Band(101, 200), Band(201, 300), Band(301, 400), Band(401, 500),
     Band(501, 600), Band(601, 700), Band(701, 800), Band(801, 900), BandFrom(901) >>

\* { price: { $gte: range.min, $lte: range.max } }
InPriceRange(doc, range) ==
  /\ doc.price >= range.min * PriceScale
  /\ range.unbounded \/ doc.price <= range.max * PriceScale

CountDocuments(docs, startDate, endDate, range) ==
  Cardinality({i \in 1..Len(docs) :
    InDateRange(docs[i], startDate, endDate) /\ InPriceRange(docs[i], range)})

\* Lines 184-207: the month is checked and the ten counts are issued.
PriceRangeStart(month, now) ==
  LET monthNumber == parseInt(month)
      args        == [month |-> month, year |-> now]
  IN
  /\ Running
  /\ q.pc = "idle"
  /\ IF InvalidMonth(monthNumber)
       THEN /\ response' = Respond("/price-range", 400, args, <<>>, 0, FALSE)
            /\ q' = q
       ELSE /\ response' = NoResponse
            /\ q' = [route |-> "/price-range", pc |-> "countDocuments", args |-> args,
                     body |-> <<>>, dirty |-> FALSE]
  /\ UNCHANGED <<store, ingest>>

\* Lines 209-221: the store executes the next of the ten counts (each is a
\* read of its own; they are taken here in the order of priceRanges); after
\* the tenth, Promise.all resolves and the bands are answered.
PriceRangeCount ==
  /\ Running
  /\ q.route = "/price-range" /\ q.pc = "countDocuments"
  /\ LET monthNumber == parseInt(q.args.month).val
         startDate   == NewDate(q.args.year, monthNumber - 1)
         endDate     == NewDate(q.args.year, monthNumber)
         range       == priceRanges[Len(q.body) + 1]
         rangeCounts == Append(q.body,
                          [range |-> range,
                           count |-> CountDocuments(store, startDate, endDate, range)])
     IN  IF Len(rangeCounts) = Len(priceRanges)
           THEN /\ response' = Respond("/price-range", 200, q.args, rangeCounts,
                                       Len(rangeCounts), q.dirty)
                /\ q' = IdleQuery
           ELSE /\ response' = NoResponse
                \* the first count has no earlier read to differ from
                /\ q' = [q EXCEPT !.body = rangeCounts,
                                  !.dirty = IF q.body = <<>> THEN FALSE ELSE q.dirty]
  /\ UNCHANGED <<store, ingest>>

\* One of the counts rejects (a store error): caught at line 222.
PriceRangeError ==
  /\ Running
  /\ q.route = "/price-range" /\ q.pc = "countDocuments"
  /\ response' = Respond("/price-range", 500, q.args, <<>>, Len(q.body) + 1, q.dirty)
  /\ q' = IdleQuery
  /\ UNCHANGED <<store, ingest>>

GetPriceRange ==
  \/ \E month \in MonthParams, now \in ClockYears : PriceRangeStart(month, now)
  \/ PriceRangeCount
  \/ PriceRangeError

-----------------------------------------------------------------------------
(* GET /category-stats *)

\* { $group: { _id: "$category", count: { $sum: 1 } } } and the $project
GroupByCategory(docs) ==
  {[category |-> c, count |-> Cardinality({i \in 1..Len(docs) : docs[i].category = c})] :
     c \in {docs[i].category : i \in 1..Len(docs)}}

\* Lines 231-262: the handler with its one aggregate(); the groups come in
\* no particular order.
CategoryStats(month, now) ==
  LET monthNumber == parseInt(month)
      args        == [month |-> month, year |-> now]
      startDate   == NewDate(now, monthNumber.val - 1)
      endDate     == NewDate(now, monthNumber.val)
      body        == GroupByCategory(MatchDate(store, startDate, endDate))
  IN
  /\ Running
  /\ q.pc = "idle"
  /\ response' = IF InvalidMonth(monthNumber)
                   THEN Respond("/category-stats", 400, args, <<>>, 0, FALSE)
                   ELSE Respond("/category-stats", 200, args, body, 1, FALSE)
  /\ UNCHANGED <<store, ingest, q>>

\* aggregate() rejects (a store error): caught at line 263.
CategoryStatsError(month, now) ==
  /\ Running
  /\ q.pc = "idle"
  /\ ~InvalidMonth(parseInt(month))
  /\ response' = Respond("/category-stats", 500, [month |-> month, year |-> now], <<>>, 1, FALSE)
  /\ UNCHANGED <<store, ingest, q>>

GetCategoryStats ==
  \E month \in MonthParams, now \in ClockYears :
    \/ CategoryStats(month, now)
    \/ CategoryStatsError(month, now)

-----------------------------------------------------------------------------
(* Specifications *)

\* res.status(...).json(...) hands the response to the client: the handler's
\* last statement, so nothing runs between the answering step and this one.
Sent ==
  /\ response # NoResponse
  /\ response' = NoResponse
  /\ UNCHANGED <<store, ingest, q>>

\* The whole service: the ingests in flight and one read request.
Next ==
  \/ Sent
  \/ Initialize
  \/ GetTransactions
  \/ GetStatistics
  \/ GetPriceRange
  \/ GetCategoryStats

Spec == Init /\ [][Next]_vars

\* The ingests alone.
NextInitialize ==
  \/ Sent
  \/ Initialize

SpecInitialize == Init /\ [][NextInitialize]_vars

\* The ingests and the GET /transactions requests.
NextTransactions ==
  \/ Sent
  \/ Initialize
  \/ GetTransactions

SpecTransactions == Init /\ [][NextTransactions]_vars

-----------------------------------------------------------------------------
(* Properties *)

PayloadA == ArrayOf(<<ItemA1, ItemA2, ItemA3, ItemA4, ItemA5>>)

\* The date of an upstream element is one new Date() accepts: a date text
\* with its month and day in range, or null (read as the epoch).
DateParses(item) ==
  /\ "date" \in DOMAIN item
  /\ \/ item.date.json = "null"
     \/ /\ item.date.json = "date"
        /\ item.date.m >= 1 /\ item.date.m <= 12
        /\ item.date.d >= 1 /\ item.date.d <= DaysPerMonth

UpstreamItems ==
  UNION {{data.items[k] : k \in 1..Len(data.items)} : data \in Upstream} \ {JsonNull}

\* The positions of the elements of `items` whose date parses.
Parseable(items) == {k \in 1..Len(items) : DateParses(items[k])}

YearOf(time) == (time \div DaysPerMonth) \div 12
MonthOf(time) == ((time \div DaysPerMonth) % 12) + 1

\* The positions of the stored records dated in the given month of the year.
MonthWindow(year, month) ==
  {k \in 1..Len(store) :
     /\ ~store[k].date.null
     /\ YearOf(store[k].date.time) = year
     /\ MonthOf(store[k].date.time) = month}

RECURSIVE SumOver(_, _)
SumOver(f, S) ==
  IF S = {} THEN 0
  ELSE LET k == CHOOSE x \in S : TRUE IN f[k] + SumOver(f, S \ {k})

\* A text that denotes an integer: an optional sign and digits, nothing else.
IsIntegerText(text) ==
  /\ text # Undefined
  /\ LET body == IF text # <<>> /\ Head(text) \in {"-", "+"} THEN Tail(text) ELSE text
     IN  body # <<>> /\ \A k \in 1..Len(body) : IsDigit(body[k])

\* C1: a step that answers GET /initialize for a payload that is no array
\* answers 400, leaves the store as it was and has executed neither
\* deleteMany nor insertMany; and 400 is answered for such a payload only.
C1_NonArrayLeavesStore ==
  [][ /\ (response'.route = "/initialize" /\ response'.args.json \notin {"array", "none"})
         => (response'.status = 400 /\ store' = store /\ response'.ops = 0)
      /\ (response'.route = "/initialize" /\ response'.status = 400)
         => (~IsArray(response'.args) /\ store' = store /\ response'.ops = 0)
    ]_vars

\* C1 witness: a 400 for a non-array payload while the store holds records.
C1_Witness ==
  /\ response.route = "/initialize" /\ response.status = 400
  /\ response.args.json = "object"
  /\ store # <<>>

\* C2: when GET /initialize answers 200 for an array of which K elements
\* have a parseable date, the store holds exactly K records, the images of
\* those K elements in order, none with a null date.
C2_StoreHoldsExactlyK ==
  (response.route = "/initialize" /\ response.status = 200)
    => LET items == response.args.items
           K     == Cardinality(Parseable(items))
       IN  /\ Len(store) = K
           /\ \A k \in 1..Len(store) : ~store[k].date.null
           /\ \A k \in 1..Len(store) :
                \E j \in Parseable(items) :
                  /\ Cardinality({x \in Parseable(items) : x < j}) = k - 1
                  /\ store[k].transactionId = items[j].transaction_id

\* C3: when a GET /initialize answers 200 and none is in flight any more,
\* the store is the normalized record set of one single ingest: the images
\* of the parseable elements of one upstream array, each once.
C3_FullyReplaced ==
  ( /\ response.route = "/initialize" /\ response.status = 200
    /\ \A i \in IngestIds : ingest[i].pc = "idle" )
    => \E data \in Upstream :
         /\ IsArray(data)
         /\ Len(store) = Cardinality(Parseable(data.items))
         /\ \A k \in 1..Len(store) :
              \E j \in Parseable(data.items) :
                /\ Cardinality({x \in Parseable(data.items) : x < j}) = k - 1
                /\ store[k].transactionId = data.items[j].transaction_id

\* C4: in every state every stored record has a date, and no upstream
\* element whose date does not parse is stored.
C4_StoredDatesValid ==
  \A k \in 1..Len(store) :
    /\ ~store[k].date.null
    /\ \A item \in UpstreamItems :
         item.transaction_id = store[k].transactionId => DateParses(item)

\* C4 witness: the ingest of payload A, two of whose five elements have a
\* date that does not parse, has answered 200 and the store holds records.
C4_Witness ==
  /\ response.route = "/initialize" /\ response.status = 200
  /\ response.args = PayloadA
  /\ store # <<>>

\* C5: when GET /initialize fails after deleteMany has executed and before
\* insertMany has, it answers 500 and the store is left empty.
C5_FailureLeavesStoreEmpty ==
  (response.route = "/initialize" /\ response.ops = 1)
    => (response.status = 500 /\ store = <<>>)

\* C6: a request with invalid input is answered 400 and has issued no
\* store operation: a month that is no integer or outside 1..12, a year
\* that is missing or no integer, a page or perPage that does not parse as
\* an integer.
C6_InvalidInputIs400 ==
  LET InvalidMonthText(month) ==
        \/ ~IsIntegerText(month)
        \/ parseInt(month).val < 1
        \/ parseInt(month).val > 12
      invalid ==
        \/ /\ response.route \in {"/statistics", "/price-range", "/category-stats"}
           /\ InvalidMonthText(response.args.month)
        \/ /\ response.route = "/statistics"
           /\ ~IsIntegerText(response.args.year)
        \/ /\ response.route = "/transactions"
           /\ \/ isNaN(parseInt(Default(response.args.page, DefaultPage)))
              \/ isNaN(parseInt(Default(response.args.perPage, DefaultPerPage)))
  IN  invalid => (response.status = 400 /\ response.ops = 0)

\* The k-th matching record of the store for a search text, by position:
\* the record at the matching position that has k - 1 matching positions
\* before it.
IsKthMatch(doc, text, k) ==
  \E j \in 1..Len(store) :
    /\ QueryMatches(store[j], text)
    /\ Cardinality({x \in 1..(j - 1) : QueryMatches(store[x], text)}) = k - 1
    /\ doc = store[j]

MatchCount(text) == Cardinality({j \in 1..Len(store) : QueryMatches(store[j], text)})

\* C7: for page >= 1 and perPage >= 1, the page read by find() holds the
\* matching records at positions (page-1)*perPage+1 .. page*perPage of the
\* store it reads, as many of them as there are; the 200 response carries
\* that page, at most perPage records, totalCount is the number of matching
\* records of the store countDocuments() reads, and totalPages is
\* ceil(totalCount / perPage).
C7_Pagination ==
  [][ /\ (q.pc = "idle" /\ q'.route = "/transactions" /\ q'.pc = "countDocuments")
         => LET b    == q'.body
                text == Default(q'.args.search, DefaultSearch)
                skip == (b.currentPage - 1) * b.perPage
            IN  /\ b.currentPage >= 1 /\ b.perPage >= 1
                /\ Len(b.transactions) <= b.perPage
                /\ \A k \in 1..b.perPage :
                     IF skip + k <= MatchCount(text)
                       THEN /\ k <= Len(b.transactions)
                            /\ IsKthMatch(b.transactions[k], text, skip + k)
                       ELSE k > Len(b.transactions)
      /\ (response'.route = "/transactions" /\ response'.status = 200)
         => LET b    == response'.body
                text == Default(response'.args.search, DefaultSearch)
            IN  /\ b.transactions = q.body.transactions
                /\ Len(b.transactions) <= b.perPage
                /\ b.totalCount = MatchCount(text)
                /\ b.totalPages * b.perPage >= b.totalCount
                /\ (b.totalPages - 1) * b.perPage < b.totalCount
    ]_vars

\* C7 witness: a 200 response for page 2 that carries a record and reports
\* at least two pages.
C7_Witness ==
  /\ response.route = "/transactions" /\ response.status = 200
  /\ response.body.currentPage = 2
  /\ Len(response.body.transactions) >= 1
  /\ response.body.totalPages >= 2

\* C8: for a valid month, GET /price-range answers the ten bands in their
\* fixed order, no record of the month window is counted in two bands, and
\* the counts add up to the number of records of the window whose price is
\* at least 0 (stated for a request during whose counts the store was not
\* written, so that the ten counts read one store content).
C8_BandsCoverWindow ==
  (response.route = "/price-range" /\ response.status = 200 /\ ~response.dirty)
    => LET bands  == response.body
           window == MonthWindow(response.args.year, parseInt(response.args.month).val)
           counts == [k \in 1..Len(bands) |-> bands[k].count]
       IN  /\ Len(bands) = 10
           /\ \A k \in 1..Len(bands) : bands[k].range = priceRanges[k]
           /\ \A j \in window :
                Cardinality({k \in 1..Len(bands) : InPriceRange(store[j], bands[k].range)}) <= 1
           /\ SumOver(counts, 1..Len(bands))
                = Cardinality({j \in window : store[j].price >= 0})

\* C9: for a valid month and year, GET /statistics reports as
\* totalSaleAmount the sum of amount over the records dated in that month of
\* that year (0 when there is none), and totalSoldItems + totalNotSoldItems
\* is at most the number of those records.
C9_MonthlyTotals ==
  (response.route = "/statistics" /\ response.status = 200)
    => LET window == MonthWindow(parseInt(response.args.year).val,
                                 parseInt(response.args.month).val)
           amount == [k \in 1..Len(store) |->
                        IF "amount" \in DOMAIN store[k] THEN store[k].amount ELSE 0]
       IN  /\ response.body.totalSaleAmount = SumOver(amount, window)
           /\ response.body.totalSoldItems + response.body.totalNotSoldItems
                <= Cardinality(window)

\* C10 as claimed: every 200 response of GET /transactions carries a page
\* no longer than its totalCount, and an empty page when totalCount is 0.
C10_PageWithinCount ==
  (response.route = "/transactions" /\ response.status = 200)
    => /\ Len(response.body.transactions) <= response.body.totalCount
       /\ response.body.totalCount = 0 => response.body.transactions = <<>>

\* C10 as amended: the same, for a request between whose find() and
\* countDocuments() no deleteMany or insertMany of an ingest executed.
C10_PageWithinCountUnlessWritten ==
  (response.route = "/transactions" /\ response.status = 200 /\ ~response.dirty)
    => /\ Len(response.body.transactions) <= response.body.totalCount
       /\ response.body.totalCount = 0 => response.body.transactions = <<>>

\* C10 witness: such a response, with a record on its page, while an ingest
\* is in flight.
C10_Witness ==
  /\ response.route = "/transactions" /\ response.status = 200 /\ ~response.dirty
  /\ Len(response.body.transactions) >= 1
  /\ \E i \in IngestIds : ingest[i].pc # "idle"

====
